---- MODULE Spec2Model ----
(***************************************************************************)
(* Instruction handlers of the pinocchio guide (programs/ and              *)
(* examples/programs/).  Every handler is a process_instruction entry      *)
(* point (payload length guard and raw-pointer reads) followed by a        *)
(* process_<op> function (account destructuring, role checks, construction *)
(* of the SDK instruction, invoke / invoke_signed).  A handler is written  *)
(* here statement by statement, in source order; Exec runs the statements  *)
(* and stops at the first one that returns, panics or faults.              *)
(***************************************************************************)
EXTENDS Integers, Sequences, FiniteSets, TLC

VARIABLES pc, handler, data, accounts, program_id, seed, result, log, calls

vars == <<pc, handler, data, accounts, program_id, seed, result, log, calls>>

\* ------------------------------------------------------------ bounds
\* Longest payload supplied to an entry point.
MaxPayloadLen == 84
\* Accounts supplied beyond the number a handler destructures.
ExtraAccounts == 1

\* pinocchio::pubkey::MAX_SEED_LEN, the bound the with-seed handlers compare with.
MAX_SEED_LEN == 32

\* ------------------------------------------------------------ values
\* ProgramError values returned by the handlers, and the two ways a handler
\* ends without returning: a panic (assert!) and a fault of an unchecked read.
InvalidInstructionData == "InvalidInstructionData"
NotEnoughAccountKeys == "NotEnoughAccountKeys"
InvalidAccountData == "InvalidAccountData"
MissingRequiredSignature == "MissingRequiredSignature"
IncorrectProgramId == "IncorrectProgramId"
InvalidSeeds == "InvalidSeeds"
Panic == "Panic"
AccessViolation == "AccessViolation"

\* What the SDK instruction's invoke / invoke_signed returns.
ExecResults == {"Ok", "Custom"}

\* What a raw-pointer read beyond the payload yields: some byte of the
\* neighbouring memory, or (-1) a fault that aborts the program.
UbOutcomes == {0, 255, -1}

\* Public keys.
TOKEN_PROGRAM == "token_program"
SYSTEM_PROGRAM == "system_program"
RENT_ID == "rent_sysvar"

\* ------------------------------------------------------------ statements
\* Conditions over the accounts (positions are those of the destructuring
\* pattern, counted from 0 as in the handlers' "### Accounts" comments).
is_writable(p) == [k |-> "is_writable", p |-> p, q |-> 0]
is_signer(p) == [k |-> "is_signer", p |-> p, q |-> 0]
owner_is_key_of(p, q) == [k |-> "owner_is_key_of", p |-> p, q |-> q]
owner_is_program_id(p) == [k |-> "owner_is_program_id", p |-> p, q |-> 0]
key_is_rent_id(p) == [k |-> "key_is_rent_id", p |-> p, q |-> 0]
seed_len_le_max == [k |-> "seed_len_le_max", p |-> 0, q |-> 0]
seed_len_gt_max == [k |-> "seed_len_gt_max", p |-> 0, q |-> 0]

\* cond, c1 && c2, c1 || c2
Is(a) == [all |-> TRUE, atoms |-> <<a>>]
Both(a, b) == [all |-> TRUE, atoms |-> <<a, b>>]
Either(a, b) == [all |-> FALSE, atoms |-> <<a, b>>]

\* if data.len() < n { return Err(ProgramError::InvalidInstructionData); }
LenGuard(n) == [op |-> "len_guard", n |-> n, rel |-> FALSE]
\* if data.len() < n + seed_len { return Err(ProgramError::InvalidInstructionData); }
LenGuardSeed(n) == [op |-> "len_guard", n |-> n, rel |-> TRUE]
\* let seed_len = unsafe { *(data.as_ptr().add(off) as *const u8) } as usize;
ReadSeedLen(off) == [op |-> "read_seed_len", off |-> off]
\* let name = unsafe { *(data.as_ptr().add(off) as *const T) };  (T of `width` bytes)
Read(name, off, width) == [op |-> "read", name |-> name, off |-> off, width |-> width, rel |-> FALSE]
\* the same at an offset that follows the seed: off + seed_len
ReadAfterSeed(name, off, width) == [op |-> "read", name |-> name, off |-> off, width |-> width, rel |-> TRUE]
\* let seed = unsafe { from_utf8_unchecked(&data[off..off + seed_len]) };
SliceSeed(off) == [op |-> "slice_seed", off |-> off]
\* msg!(...)
Msg == [op |-> "msg"]
\* let [a, b, ...] = accounts else { return Err(ProgramError::NotEnoughAccountKeys) };
Destructure(n) == [op |-> "destructure", n |-> n]
\* if !cond { return Err(err); }
ReturnErrUnless(cond, err) == [op |-> "check", cond |-> cond, panics |-> FALSE, err |-> err]
\* assert!(cond) / assert_eq!(a, b)
RustAssert(cond) == [op |-> "check", cond |-> cond, panics |-> TRUE, err |-> Panic]
\* Instr { fields }.invoke()?  /  .invoke_signed(signers)?
Invoke(instr, accts, args, signers) ==
  [op |-> "invoke", instr |-> instr, accts |-> accts, args |-> args, signers |-> signers, tail |-> FALSE]
\* Instr { fields }.invoke() as the function's value
InvokeAndReturn(instr, accts, args, signers) ==
  [op |-> "invoke", instr |-> instr, accts |-> accts, args |-> args, signers |-> signers, tail |-> TRUE]
\* Ok(())
ReturnOk == [op |-> "return_ok"]

\* The signers of invoke(): none.  `signers` parameter: the caller's.
NoSigners == ""
CallerSigners == "signers"

\* ------------------------------------------------------------ execution
\* Events of the log: [ev, a, b, ok].
Event(ev, a, b, ok) == [ev |-> ev, a |-> a, b |-> b, ok |-> ok]

\* The bytes a raw-pointer read of `width` bytes at `off` yields.
RawBytes(st, off, width) ==
  [i \in 1..width |-> IF off + i <= Len(st.data) THEN st.data[off + i] ELSE st.ub]

InBounds(st, off, width) == off + width <= Len(st.data)

\* The eight bytes read most significant first.
u64_from_be_bytes(bs) == [i \in 1..4 |-> bs[10 - 2 * i] + 256 * bs[9 - 2 * i]]

\* u64 from its 8 little-endian bytes, as four 16-bit limbs, least significant first.
u64_from_le_bytes(bs) == [i \in 1..4 |-> bs[2 * i - 1] + 256 * bs[2 * i]]

\* The value of a field read: u64 for 8 bytes, the bytes themselves otherwise
\* ([u8; 1], u8, Pubkey).
FieldValue(bs) == IF Len(bs) = 8 THEN u64_from_le_bytes(bs) ELSE bs

\* The owner comparison left out.
AtomHolds_owner_unchecked(a, st) ==
  CASE a.k = "is_writable" -> st.accounts[a.p + 1].is_writable
    [] a.k = "is_signer" -> st.accounts[a.p + 1].is_signer
    [] a.k = "owner_is_key_of" -> TRUE
    [] a.k = "owner_is_program_id" -> TRUE
    [] a.k = "key_is_rent_id" -> st.accounts[a.p + 1].key = RENT_ID
    [] a.k = "seed_len_le_max" -> ~(Len(st.seed) > MAX_SEED_LEN)
    [] a.k = "seed_len_gt_max" -> Len(st.seed) > MAX_SEED_LEN

AtomHolds(a, st) ==
  CASE a.k = "is_writable" -> st.accounts[a.p + 1].is_writable
    [] a.k = "is_signer" -> st.accounts[a.p + 1].is_signer
    [] a.k = "owner_is_key_of" -> st.accounts[a.p + 1].owner = st.accounts[a.q + 1].key
    [] a.k = "owner_is_program_id" -> st.accounts[a.p + 1].owner = st.program_id
    [] a.k = "key_is_rent_id" -> st.accounts[a.p + 1].key = RENT_ID
    [] a.k = "seed_len_le_max" -> ~(Len(st.seed) > MAX_SEED_LEN)
    [] a.k = "seed_len_gt_max" -> Len(st.seed) > MAX_SEED_LEN

CondHolds(c, st) ==
  IF c.all
  THEN \A i \in 1..Len(c.atoms) : AtomHolds(c.atoms[i], st)
  ELSE \E i \in 1..Len(c.atoms) : AtomHolds(c.atoms[i], st)

Logged(st, e) == [st EXCEPT !.log = Append(@, e)]
Ended(st, r) == [st EXCEPT !.result = r]

\* The guard written `data.len() < n - 1`.
StepLenGuard_off_by_one(s, st) ==
  LET need == s.n + (IF s.rel THEN st.seed_len ELSE 0)
      ok == ~(Len(st.data) < need - 1)
      st1 == Logged(st, Event("len_guard", need, Len(st.data), ok))
  IN IF ok THEN st1 ELSE Ended(st1, InvalidInstructionData)

\* The second guard without the seed length in its sum.
StepLenGuard_without_seed_len(s, st) ==
  LET need == s.n
      ok == ~(Len(st.data) < need)
      st1 == Logged(st, Event("len_guard", need, Len(st.data), ok))
  IN IF ok THEN st1 ELSE Ended(st1, InvalidInstructionData)

StepLenGuard(s, st) ==
  LET need == s.n + (IF s.rel THEN st.seed_len ELSE 0)
      ok == ~(Len(st.data) < need)
      st1 == Logged(st, Event("len_guard", need, Len(st.data), ok))
  IN IF ok THEN st1 ELSE Ended(st1, InvalidInstructionData)

StepRead(name, off, width, st) ==
  LET ok == InBounds(st, off, width)
      st1 == Logged(st, Event("read", off, width, ok))
  IN IF ~ok /\ st.ub = -1
     THEN Ended(st1, AccessViolation)
     ELSE [st1 EXCEPT !.env = (name :> FieldValue(RawBytes(st, off, width))) @@ @]

StepReadSeedLen(s, st) ==
  LET st1 == StepRead("seed_len", s.off, 1, st)
  IN IF st1.result # "running" THEN st1
     ELSE [st1 EXCEPT !.seed_len = st1.env["seed_len"][1]]

StepSliceSeed(s, st) ==
  LET ok == InBounds(st, s.off, st.seed_len)
      st1 == Logged(st, Event("slice", s.off, st.seed_len, ok))
  IN IF ~ok THEN Ended(st1, Panic)
     ELSE [st1 EXCEPT !.seed = SubSeq(st.data, s.off + 1, s.off + st.seed_len)]

\* The pattern written `[a, b, ..]`: longer lists match.
StepDestructure_open_pattern(s, st) ==
  LET ok == Len(st.accounts) >= s.n
      st1 == Logged(st, Event("destructure", s.n, Len(st.accounts), ok))
  IN IF ok THEN st1 ELSE Ended(st1, NotEnoughAccountKeys)

StepDestructure(s, st) ==
  LET ok == Len(st.accounts) = s.n
      st1 == Logged(st, Event("destructure", s.n, Len(st.accounts), ok))
  IN IF ok THEN st1 ELSE Ended(st1, NotEnoughAccountKeys)

\* A check whose failure is computed and dropped.
StepCheck_keeps_going(s, st) ==
  Logged(st, Event("check", s.cond.atoms[1].p, Len(s.cond.atoms), CondHolds(s.cond, st)))

\* A check that returns InvalidAccountData whatever it tests.
StepCheck_one_error_kind(s, st) ==
  LET ok == CondHolds(s.cond, st)
      st1 == Logged(st, Event("check", s.cond.atoms[1].p, Len(s.cond.atoms), ok))
  IN IF ok THEN st1 ELSE Ended(st1, IF s.panics THEN s.err ELSE InvalidAccountData)

\* A failing check that clears the flags of the account it tested before it
\* returns.
StepCheck_writes_account(s, st) ==
  LET ok == CondHolds(s.cond, st)
      st1 == Logged(st, Event("check", s.cond.atoms[1].p, Len(s.cond.atoms), ok))
      p == s.cond.atoms[1].p + 1
  IN IF ok THEN st1
     ELSE Ended([st1 EXCEPT !.accounts[p].is_signer = FALSE, !.accounts[p].is_writable = FALSE,
                            !.accounts[p].lamports = 0], s.err)

StepCheck(s, st) ==
  LET ok == CondHolds(s.cond, st)
      st1 == Logged(st, Event("check", s.cond.atoms[1].p, Len(s.cond.atoms), ok))
  IN IF ok THEN st1 ELSE Ended(st1, s.err)

\* The value of a parameter handed to the instruction: the decoded field, or,
\* where the entry point decodes none, what the caller passed.
ArgValue(st, name) ==
  IF name = "seed" THEN st.seed
  ELSE IF name \in DOMAIN st.env THEN st.env[name] ELSE st.caller_arg

SignerSeeds(st, signers) ==
  IF signers = NoSigners THEN <<>>
  ELSE IF signers = CallerSigners THEN <<CallerSigners>>
  ELSE <<signers, ArgValue(st, "bump")>>

\* The instruction invoked with its result dropped: `let _ = ix.invoke();`.
StepInvoke_result_dropped(s, st) ==
  LET call == [instr |-> s.instr,
               accts |-> [i \in 1..Len(s.accts) |-> st.accounts[s.accts[i] + 1].key],
               args |-> [i \in 1..Len(s.args) |-> <<s.args[i], ArgValue(st, s.args[i])>>],
               signers |-> SignerSeeds(st, s.signers),
               returned |-> st.ret]
      st1 == [Logged(st, Event("invoke", 0, 0, st.ret = "Ok")) EXCEPT !.calls = Append(@, call)]
  IN IF s.tail THEN Ended(st1, "Ok") ELSE st1

\* The instruction invoked again when it fails, and every failure reported as
\* InvalidAccountData.
StepInvoke_retry_and_translate(s, st) ==
  LET call == [instr |-> s.instr,
               accts |-> [i \in 1..Len(s.accts) |-> st.accounts[s.accts[i] + 1].key],
               args |-> [i \in 1..Len(s.args) |-> <<s.args[i], ArgValue(st, s.args[i])>>],
               signers |-> SignerSeeds(st, s.signers),
               returned |-> st.ret]
      st1 == [Logged(st, Event("invoke", 0, 0, st.ret = "Ok")) EXCEPT !.calls = Append(@, call)]
      st2 == [Logged(st1, Event("invoke", 0, 0, FALSE)) EXCEPT !.calls = Append(@, call)]
  IN IF st.ret # "Ok" THEN Ended(st2, InvalidAccountData)
     ELSE IF s.tail THEN Ended(st1, st.ret) ELSE st1

StepInvoke(s, st) ==
  LET call == [instr |-> s.instr,
               accts |-> [i \in 1..Len(s.accts) |-> st.accounts[s.accts[i] + 1].key],
               args |-> [i \in 1..Len(s.args) |-> <<s.args[i], ArgValue(st, s.args[i])>>],
               signers |-> SignerSeeds(st, s.signers),
               returned |-> st.ret]
      st1 == [Logged(st, Event("invoke", 0, 0, st.ret = "Ok")) EXCEPT !.calls = Append(@, call)]
  IN IF s.tail \/ st.ret # "Ok" THEN Ended(st1, st.ret) ELSE st1

Step(s, st) ==
  CASE s.op = "len_guard" -> StepLenGuard(s, st)
    [] s.op = "read_seed_len" -> StepReadSeedLen(s, st)
    [] s.op = "read" -> StepRead(s.name, s.off + (IF s.rel THEN st.seed_len ELSE 0), s.width, st)
    [] s.op = "slice_seed" -> StepSliceSeed(s, st)
    [] s.op = "msg" -> st
    [] s.op = "destructure" -> StepDestructure(s, st)
    [] s.op = "check" -> StepCheck(s, st)
    [] s.op = "invoke" -> StepInvoke(s, st)
    [] s.op = "return_ok" -> Ended(st, "Ok")

RECURSIVE Exec(_, _, _)
Exec(stmts, i, st) ==
  IF i > Len(stmts) \/ st.result # "running" THEN st
  ELSE Exec(stmts, i + 1, Step(stmts[i], st))

\* ------------------------------------------------------------ handlers
\* A program with an entrypoint!(process_instruction), and a process_<op>
\* function of a file that has none.
EntryPoint(name, entry, body) == [name |-> name, has_entry |-> TRUE, entry |-> entry, body |-> body]
Function(name, body) == [name |-> name, has_entry |-> FALSE, entry |-> <<>>, body |-> body]

MRS == MissingRequiredSignature
IAD == InvalidAccountData

\* ---- examples/programs/src/system
\* The handler with a guard on the payload length, as its siblings have.
examples_system_advance_nonce_account_guarded ==
  EntryPoint("examples_system_advance_nonce_account", << LenGuard(1) >>,
    << Destructure(4),
       ReturnErrUnless(Is(is_signer(2)), MRS),
       Invoke("AdvanceNonceAccount", <<0, 1, 2>>, <<>>, NoSigners),
       ReturnOk >>)

examples_system_advance_nonce_account ==
  EntryPoint("examples_system_advance_nonce_account", <<>>,
    << Destructure(4),
       ReturnErrUnless(Is(is_signer(2)), MRS),
       Invoke("AdvanceNonceAccount", <<0, 1, 2>>, <<>>, NoSigners),
       ReturnOk >>)

examples_system_allocate ==
  EntryPoint("examples_system_allocate",
    << LenGuard(9), Read("space", 0, 8), Read("bump", 8, 1) >>,
    << Destructure(1),
       ReturnErrUnless(Is(is_signer(0)), MRS),
       Invoke("Allocate", <<0>>, <<"space">>, "seeds"),
       ReturnOk >>)

examples_system_allocate_with_seed ==
  EntryPoint("examples_system_allocate_with_seed",
    << LenGuard(10), ReadSeedLen(0), LenGuardSeed(1 + 8 + 32 + 1), SliceSeed(1),
       ReadAfterSeed("space", 1, 8), ReadAfterSeed("owner", 1 + 8, 32),
       ReadAfterSeed("bump", 1 + 8 + 32, 1) >>,
    << Destructure(2),
       ReturnErrUnless(Is(is_signer(1)), MRS),
       ReturnErrUnless(Is(seed_len_le_max), InvalidSeeds),
       Invoke("AllocateWithSeed", <<0, 1>>, <<"seed", "space", "owner">>, "base_account"),
       ReturnOk >>)

examples_system_assign ==
  EntryPoint("examples_system_assign",
    << LenGuard(33), Read("owner", 0, 32), Read("bump", 32, 1) >>,
    << Destructure(1),
       ReturnErrUnless(Is(is_signer(0)), MRS),
       Invoke("Assign", <<0>>, <<"owner">>, "assigned_account"),
       ReturnOk >>)

examples_system_assign_with_seed ==
  EntryPoint("examples_system_assign_with_seed",
    << LenGuard(10), ReadSeedLen(0), LenGuardSeed(1 + 32 + 1), SliceSeed(1),
       ReadAfterSeed("owner", 1, 32), ReadAfterSeed("bump", 1 + 32, 1) >>,
    << Destructure(2),
       ReturnErrUnless(Is(is_signer(1)), MRS),
       ReturnErrUnless(Is(seed_len_le_max), InvalidSeeds),
       Invoke("AssignWithSeed", <<0, 1>>, <<"seed", "owner">>, "base_account"),
       ReturnOk >>)

examples_system_authorize_nonce_account ==
  EntryPoint("examples_system_authorize_nonce_account",
    << LenGuard(33), Read("new_authority", 0, 32), Read("bump", 32, 1) >>,
    << Destructure(2),
       ReturnErrUnless(Is(is_signer(1)), MRS),
       Invoke("AuthorizeNonceAccount", <<0, 1>>, <<"new_authority">>, "nonce_authority"),
       ReturnOk >>)

examples_system_create_account ==
  EntryPoint("examples_system_create_account",
    << LenGuard(42), Read("lamports", 0, 8), Read("space", 8, 8), Read("owner", 16, 32),
       Read("bump", 48, 1) >>,
    << Destructure(2),
       ReturnErrUnless(Both(is_signer(0), is_signer(1)), MRS),
       Invoke("CreateAccount", <<0, 1>>, <<"lamports", "space", "owner">>, "funding_account"),
       ReturnOk >>)

examples_system_create_account_with_seed ==
  EntryPoint("examples_system_create_account_with_seed",
    << LenGuard(41), ReadSeedLen(0), LenGuardSeed(1 + 8 + 8 + 32 + 1), SliceSeed(1),
       ReadAfterSeed("lamports", 1, 8), ReadAfterSeed("space", 1 + 8, 8),
       ReadAfterSeed("owner", 1 + 8 + 8, 32), ReadAfterSeed("bump", 1 + 8 + 8 + 32, 1) >>,
    << Destructure(3),
       RustAssert(Either(is_signer(0), is_signer(1))),
       Invoke("CreateAccountWithSeed", <<0, 1, 2>>, <<"seed", "lamports", "space", "owner">>,
              "funding_account"),
       ReturnOk >>)

examples_system_initialize_nonce_account ==
  EntryPoint("examples_system_initialize_nonce_account",
    << LenGuard(33), Read("authority", 0, 32), Read("bump", 32, 1) >>,
    << Destructure(3),
       RustAssert(Is(is_writable(0))),
       Invoke("InitializeNonceAccount", <<0, 1, 2>>, <<"authority">>, "nonce_account"),
       ReturnOk >>)

examples_system_transfer_lamports ==
  EntryPoint("examples_system_transfer_lamports",
    << LenGuard(9), Read("bump", 0, 1), Read("lamports", 1, 8) >>,
    << Destructure(2),
       ReturnErrUnless(Both(is_writable(0), is_signer(0)), MRS),
       ReturnErrUnless(Is(is_writable(1)), IAD),
       Invoke("Transfer", <<0, 1>>, <<"lamports">>, "from_account"),
       ReturnOk >>)

examples_system_transfer_with_seed ==
  EntryPoint("examples_system_transfer_with_seed",
    << LenGuard(41), Read("lamports", 0, 8), ReadSeedLen(8), LenGuardSeed(9 + 32 + 1),
       SliceSeed(9), ReadAfterSeed("owner", 9, 32), ReadAfterSeed("bump", 9 + 32, 1) >>,
    << Destructure(3),
       ReturnErrUnless(Is(is_writable(0)), IAD),
       ReturnErrUnless(Is(is_signer(1)), MRS),
       ReturnErrUnless(Is(is_writable(2)), IAD),
       Invoke("TransferWithSeed", <<0, 1, 2>>, <<"lamports", "seed", "owner">>, "seed"),
       ReturnOk >>)

examples_system_update_nonce_account ==
  EntryPoint("examples_system_update_nonce_account",
    << LenGuard(8), Read("bump", 0, 1) >>,
    << Destructure(1),
       RustAssert(Is(is_writable(0))),
       Invoke("UpdateNonceAccount", <<0>>, <<>>, "seeds"),
       ReturnOk >>)

examples_system_withdraw_nonce_account ==
  EntryPoint("examples_system_withdraw_nonce_account",
    << LenGuard(9), Read("bump", 0, 1), Read("lamports_to_withdraw", 1, 8) >>,
    << Destructure(5),
       ReturnErrUnless(Both(is_writable(0), is_writable(1)), IAD),
       ReturnErrUnless(Is(is_signer(4)), MRS),
       Invoke("WithdrawNonceAccount", <<0, 1, 2, 3, 4>>, <<"lamports_to_withdraw">>,
              "nonce_authority"),
       ReturnOk >>)

\* ---- examples/programs/src/token
examples_token_approve ==
  EntryPoint("examples_token_approve",
    << LenGuard(9), Read("amount", 0, 8), Read("bump", 8, 1) >>,
    << Destructure(3),
       ReturnErrUnless(Is(is_writable(0)), IAD),
       ReturnErrUnless(Is(is_signer(2)), MRS),
       Invoke("Approve", <<0, 1, 2>>, <<"amount">>, "authority_account"),
       ReturnOk >>)

examples_token_approve_checked ==
  EntryPoint("examples_token_approve_checked",
    << LenGuard(9), Read("amount", 0, 8), Read("decimals", 8, 1), Read("bump", 9, 1) >>,
    << Destructure(4),
       ReturnErrUnless(Is(is_writable(0)), IAD),
       ReturnErrUnless(Is(is_signer(3)), MRS),
       Invoke("ApproveChecked", <<0, 1, 2, 3>>, <<"amount", "decimals">>, "authority_account"),
       ReturnOk >>)

examples_token_burn_checked ==
  EntryPoint("examples_token_burn_checked",
    << LenGuard(9), Read("amount", 0, 8), Read("decimals", 8, 1), Read("bump", 9, 1) >>,
    << Destructure(3),
       ReturnErrUnless(Is(is_writable(0)), IAD),
       ReturnErrUnless(Is(is_writable(1)), IAD),
       ReturnErrUnless(Is(is_signer(2)), MRS),
       Invoke("BurnChecked", <<0, 1, 2>>, <<"amount", "decimals">>, "authority_account"),
       ReturnOk >>)

examples_token_close_account ==
  EntryPoint("examples_token_close_account",
    << LenGuard(8), Read("bump", 0, 1) >>,
    << Destructure(3),
       ReturnErrUnless(Is(is_writable(0)), IAD),
       ReturnErrUnless(Is(is_writable(1)), IAD),
       ReturnErrUnless(Is(is_signer(2)), MRS),
       Invoke("CloseAccount", <<0, 1, 2>>, <<>>, "authority_account"),
       ReturnOk >>)

examples_token_freeze_account ==
  EntryPoint("examples_token_freeze_account",
    << LenGuard(8), Read("bump", 0, 1) >>,
    << Destructure(3),
       ReturnErrUnless(Is(is_writable(0)), IAD),
       ReturnErrUnless(Is(is_signer(2)), MRS),
       Invoke("FreezeAccount", <<0, 1, 2>>, <<>>, "freeze_authority"),
       ReturnOk >>)

examples_token_initialize_account ==
  EntryPoint("examples_token_initialize_account",
    << LenGuard(8) >>,
    << Destructure(4),
       RustAssert(Is(is_writable(0))),
       RustAssert(Is(key_is_rent_id(3))),
       Invoke("InitializeAccount", <<0, 1, 2, 3>>, <<>>, CallerSigners),
       ReturnOk >>)

examples_token_initialize_mint ==
  EntryPoint("examples_token_initialize_mint",
    << LenGuard(8) >>,
    << Destructure(2),
       ReturnErrUnless(Is(is_writable(0)), IAD),
       ReturnErrUnless(Is(key_is_rent_id(1)), IAD),
       Invoke("InitializeMint", <<0, 1>>, <<"decimals", "mint_authority", "freeze_authority">>,
              CallerSigners),
       ReturnOk >>)

examples_token_mint_to ==
  EntryPoint("examples_token_mint_to",
    << LenGuard(9), Read("amount", 0, 8), Read("bump", 8, 1) >>,
    << Destructure(4),
       RustAssert(Is(is_writable(0))),
       RustAssert(Is(is_writable(1))),
       RustAssert(Is(is_signer(2))),
       Invoke("MintTo", <<0, 1, 2>>, <<"amount">>, "mint_authority"),
       ReturnOk >>)

examples_token_mint_to_checked ==
  EntryPoint("examples_token_mint_to_checked",
    << LenGuard(9), Read("amount", 0, 8), Read("decimals", 8, 1), Read("bump", 9, 1) >>,
    << Destructure(3),
       ReturnErrUnless(Is(is_writable(0)), IAD),
       ReturnErrUnless(Is(is_writable(1)), IAD),
       ReturnErrUnless(Is(is_signer(2)), MRS),
       Invoke("MintToChecked", <<0, 1, 2>>, <<"amount", "decimals">>, "mint_authority"),
       ReturnOk >>)

examples_token_revoke ==
  EntryPoint("examples_token_revoke",
    << LenGuard(8), Read("bump", 0, 1) >>,
    << Destructure(2),
       ReturnErrUnless(Is(is_writable(0)), IAD),
       ReturnErrUnless(Is(is_signer(1)), MRS),
       Invoke("Revoke", <<0, 1>>, <<>>, "owner_account"),
       ReturnOk >>)

examples_token_set_authority ==
  EntryPoint("examples_token_set_authority",
    << LenGuard(8) >>,
    << Destructure(2),
       ReturnErrUnless(Is(is_writable(0)), IAD),
       ReturnErrUnless(Is(is_signer(1)), MRS),
       Invoke("SetAuthority", <<0, 1>>, <<"authority_type", "new_authority">>, CallerSigners),
       ReturnOk >>)

examples_token_sync_native ==
  EntryPoint("examples_token_sync_native",
    << LenGuard(8) >>,
    << Destructure(1),
       ReturnErrUnless(Is(is_writable(0)), IAD),
       InvokeAndReturn("SyncNative", <<0>>, <<>>, NoSigners) >>)

examples_token_thaw_account ==
  EntryPoint("examples_token_thaw_account",
    << LenGuard(8) >>,
    << Destructure(3),
       ReturnErrUnless(Is(is_writable(0)), IAD),
       ReturnErrUnless(Is(is_signer(2)), MRS),
       Invoke("ThawAccount", <<0, 1, 2>>, <<>>, NoSigners),
       ReturnOk >>)

examples_token_transfer_checked ==
  EntryPoint("examples_token_transfer_checked",
    << LenGuard(9), Read("amount", 0, 8), Read("decimals", 8, 1), Read("bump", 9, 1) >>,
    << Destructure(4),
       ReturnErrUnless(Is(is_writable(0)), IAD),
       ReturnErrUnless(Is(is_writable(2)), IAD),
       ReturnErrUnless(Is(is_signer(3)), MRS),
       Invoke("TransferChecked", <<0, 1, 2, 3>>, <<"amount", "decimals">>, "authority_account"),
       ReturnOk >>)

examples_token_transfer_tokens ==
  EntryPoint("examples_token_transfer_tokens",
    << LenGuard(8), Read("amount", 0, 8) >>,
    << Destructure(4),
       RustAssert(Is(is_writable(0))),
       RustAssert(Is(is_writable(1))),
       RustAssert(Is(owner_is_key_of(0, 3))),
       RustAssert(Is(owner_is_key_of(1, 3))),
       RustAssert(Is(is_signer(2))),
       Invoke("Transfer", <<0, 1, 2>>, <<"amount">>, NoSigners),
       ReturnOk >>)

\* ---- programs/src
programs_burn ==
  Function("programs_burn",
    << Destructure(3),
       ReturnErrUnless(Is(is_writable(0)), IAD),
       ReturnErrUnless(Is(is_writable(1)), IAD),
       ReturnErrUnless(Is(is_signer(2)), MRS),
       Invoke("Burn", <<0, 1, 2>>, <<"amount">>, CallerSigners),
       ReturnOk >>)

programs_close_account ==
  Function("programs_close_account",
    << Destructure(3),
       RustAssert(Is(is_writable(0))),
       RustAssert(Is(is_writable(1))),
       RustAssert(Is(is_signer(2))),
       Invoke("CloseAccount", <<0, 1, 2>>, <<>>, CallerSigners),
       ReturnOk >>)

programs_initialize_account ==
  Function("programs_initialize_account",
    << Destructure(4),
       RustAssert(Is(is_writable(0))),
       RustAssert(Is(key_is_rent_id(3))),
       Invoke("InitializeAccount", <<0, 1, 2, 3>>, <<>>, CallerSigners),
       ReturnOk >>)

programs_mint_to ==
  Function("programs_mint_to",
    << Destructure(3),
       RustAssert(Is(is_writable(0))),
       RustAssert(Is(is_writable(1))),
       RustAssert(Is(is_signer(2))),
       Invoke("MintTo", <<0, 1, 2>>, <<"amount">>, CallerSigners),
       ReturnOk >>)

programs_mint_to_checked ==
  Function("programs_mint_to_checked",
    << Destructure(3),
       RustAssert(Is(is_writable(0))),
       RustAssert(Is(is_writable(1))),
       RustAssert(Is(is_signer(2))),
       Invoke("MintToChecked", <<0, 1, 2>>, <<"amount", "decimals">>, CallerSigners),
       ReturnOk >>)

programs_revoke ==
  Function("programs_revoke",
    << Destructure(2),
       RustAssert(Is(is_writable(0))),
       RustAssert(Is(is_signer(1))),
       Invoke("Revoke", <<0, 1>>, <<>>, CallerSigners),
       ReturnOk >>)

programs_transfer ==
  EntryPoint("programs_transfer",
    << LenGuard(8), Read("amount", 0, 8) >>,
    << Destructure(4),
       ReturnErrUnless(Is(is_writable(0)), IAD), Msg,
       ReturnErrUnless(Is(is_writable(1)), IAD), Msg,
       ReturnErrUnless(Both(owner_is_key_of(0, 3), owner_is_key_of(1, 3)), IncorrectProgramId), Msg,
       ReturnErrUnless(Is(is_signer(2)), MRS), Msg,
       Msg,
       Invoke("Transfer", <<0, 1, 2>>, <<"amount">>, NoSigners), Msg,
       ReturnOk >>)

\* ---- programs/src/system
programs_system_advance_nonce_account ==
  EntryPoint("programs_system_advance_nonce_account",
    << Msg >>,
    << Destructure(4), Msg,
       ReturnErrUnless(Is(is_signer(2)), MRS), Msg,
       Msg,
       Invoke("AdvanceNonceAccount", <<0, 1, 2>>, <<>>, NoSigners), Msg,
       ReturnOk >>)

programs_system_allocate ==
  Function("programs_system_allocate",
    << Destructure(1),
       RustAssert(Is(is_signer(0))),
       Invoke("Allocate", <<0>>, <<"space">>, CallerSigners),
       ReturnOk >>)

programs_system_allocate_with_seed ==
  Function("programs_system_allocate_with_seed",
    << Destructure(2),
       RustAssert(Is(is_signer(1))),
       RustAssert(Is(seed_len_gt_max)),
       Invoke("AllocateWithSeed", <<0, 1>>, <<"seed", "space", "owner">>, CallerSigners),
       ReturnOk >>)

programs_system_assign ==
  Function("programs_system_assign",
    << Destructure(1),
       RustAssert(Is(is_signer(0))),
       Invoke("Assign", <<0>>, <<"owner">>, CallerSigners),
       ReturnOk >>)

programs_system_assign_with_seed ==
  EntryPoint("programs_system_assign_with_seed",
    << LenGuard(8) >>,
    << Destructure(2),
       RustAssert(Is(is_signer(1))),
       RustAssert(Is(seed_len_gt_max)),
       Invoke("AssignWithSeed", <<0, 1>>, <<"seed", "owner">>, CallerSigners),
       ReturnOk >>)

programs_system_authorize_nonce_account ==
  Function("programs_system_authorize_nonce_account",
    << Destructure(2),
       RustAssert(Is(is_signer(1))),
       Invoke("AuthorizeNonceAccount", <<0, 1>>, <<"new_authority">>, CallerSigners),
       ReturnOk >>)

programs_system_create_account ==
  Function("programs_system_create_account",
    << Destructure(2),
       RustAssert(Either(is_signer(0), is_signer(1))),
       Invoke("CreateAccount", <<0, 1>>, <<"lamports", "space", "owner">>, CallerSigners),
       ReturnOk >>)

programs_system_create_account_with_seed ==
  Function("programs_system_create_account_with_seed",
    << Destructure(3),
       RustAssert(Either(is_signer(0), is_signer(1))),
       Invoke("CreateAccountWithSeed", <<0, 1, 2>>, <<"seed", "lamports", "space", "owner">>,
              CallerSigners),
       ReturnOk >>)

programs_system_initialize_nonce_account ==
  Function("programs_system_initialize_nonce_account",
    << Destructure(3),
       RustAssert(Is(is_writable(0))),
       Invoke("InitializeNonceAccount", <<0, 1, 2>>, <<"authority">>, CallerSigners),
       ReturnOk >>)

programs_system_transfer ==
  Function("programs_system_transfer",
    << Destructure(2),
       RustAssert(Either(is_writable(0), is_signer(0))),
       RustAssert(Is(is_writable(1))),
       Invoke("Transfer", <<0, 1>>, <<"lamports">>, CallerSigners),
       ReturnOk >>)

programs_system_transfer_lamports ==
  EntryPoint("programs_system_transfer_lamports",
    << LenGuard(8) >>,
    << Destructure(2),
       RustAssert(Either(is_writable(0), is_signer(0))),
       RustAssert(Is(is_writable(1))),
       Invoke("Transfer", <<0, 1>>, <<"lamports">>, CallerSigners),
       ReturnOk >>)

programs_system_transfer_with_seed ==
  EntryPoint("programs_system_transfer_with_seed",
    << LenGuard(8) >>,
    << Destructure(3),
       RustAssert(Is(is_writable(0))),
       RustAssert(Is(is_signer(1))),
       RustAssert(Is(is_writable(2))),
       Invoke("TransferWithSeed", <<0, 1, 2>>, <<"lamports", "seed", "owner">>, CallerSigners),
       ReturnOk >>)

programs_system_update_nonce_account ==
  EntryPoint("programs_system_update_nonce_account",
    << LenGuard(8) >>,
    << Destructure(1),
       RustAssert(Is(is_writable(0))),
       Invoke("UpdateNonceAccount", <<0>>, <<>>, CallerSigners),
       ReturnOk >>)

programs_system_withdraw_nonce_account ==
  EntryPoint("programs_system_withdraw_nonce_account",
    << LenGuard(8) >>,
    << Destructure(5),
       RustAssert(Either(is_writable(0), is_writable(1))),
       RustAssert(Is(is_signer(4))),
       Invoke("WithdrawNonceAccount", <<0, 1, 2, 3, 4>>, <<"lamports_to_withdraw">>,
              CallerSigners),
       ReturnOk >>)

\* ---- programs/src/token
programs_token_approve ==
  Function("programs_token_approve",
    << Destructure(3),
       RustAssert(Is(is_writable(0))),
       RustAssert(Is(is_signer(2))),
       Invoke("Approve", <<0, 1, 2>>, <<"amount">>, CallerSigners),
       ReturnOk >>)

programs_token_approve_checked ==
  EntryPoint("programs_token_approve_checked",
    << LenGuard(8) >>,
    << Destructure(4),
       RustAssert(Is(is_writable(0))),
       RustAssert(Is(is_signer(3))),
       Invoke("ApproveChecked", <<0, 1, 2, 3>>, <<"amount", "decimals">>, CallerSigners),
       ReturnOk >>)

programs_token_burn ==
  EntryPoint("programs_token_burn",
    << LenGuard(8) >>,
    << Destructure(3),
       ReturnErrUnless(Is(is_writable(0)), IAD),
       ReturnErrUnless(Is(is_writable(1)), IAD),
       ReturnErrUnless(Is(is_signer(2)), MRS),
       Invoke("Burn", <<0, 1, 2>>, <<"amount">>, CallerSigners),
       ReturnOk >>)

programs_token_burn_checked ==
  Function("programs_token_burn_checked",
    << Destructure(3),
       RustAssert(Is(is_writable(0))),
       RustAssert(Is(is_writable(1))),
       RustAssert(Is(is_signer(2))),
       Invoke("BurnChecked", <<0, 1, 2>>, <<"amount", "decimals">>, CallerSigners),
       ReturnOk >>)

programs_token_close_account ==
  EntryPoint("programs_token_close_account",
    << LenGuard(8) >>,
    << Destructure(3),
       RustAssert(Is(is_writable(0))),
       RustAssert(Is(is_writable(1))),
       RustAssert(Is(is_signer(2))),
       Invoke("CloseAccount", <<0, 1, 2>>, <<>>, CallerSigners),
       ReturnOk >>)

programs_token_freeze_account ==
  Function("programs_token_freeze_account",
    << Destructure(3),
       RustAssert(Is(is_writable(0))),
       RustAssert(Is(is_signer(2))),
       Invoke("FreezeAccount", <<0, 1, 2>>, <<>>, CallerSigners),
       ReturnOk >>)

programs_token_mint_to ==
  EntryPoint("programs_token_mint_to",
    << LenGuard(9), Read("amount", 0, 8), Read("bump", 8, 1) >>,
    << Destructure(4),
       RustAssert(Is(is_writable(0))),
       RustAssert(Is(is_writable(1))),
       RustAssert(Is(is_signer(2))),
       Invoke("MintTo", <<0, 1, 2>>, <<"amount">>, "mint_authority"),
       ReturnOk >>)

programs_token_mint_to_checked ==
  EntryPoint("programs_token_mint_to_checked",
    << LenGuard(8), Read("amount", 0, 8), Read("decimals", 8, 1) >>,
    << Destructure(3),
       RustAssert(Is(is_writable(0))),
       RustAssert(Is(is_writable(1))),
       RustAssert(Is(is_signer(2))),
       Invoke("MintToChecked", <<0, 1, 2>>, <<"amount", "decimals">>, CallerSigners),
       ReturnOk >>)

programs_token_revoke ==
  Function("programs_token_revoke",
    << Destructure(2),
       ReturnErrUnless(Is(is_writable(0)), IAD),
       RustAssert(Is(is_writable(0))),
       ReturnErrUnless(Is(is_signer(1)), MRS),
       Invoke("Revoke", <<0, 1>>, <<>>, CallerSigners),
       ReturnOk >>)

programs_token_set_authority ==
  EntryPoint("programs_token_set_authority",
    << LenGuard(8) >>,
    << Destructure(2),
       RustAssert(Is(is_writable(0))),
       RustAssert(Is(is_signer(1))),
       Invoke("SetAuthority", <<0, 1>>, <<"authority_type", "new_authority">>, CallerSigners),
       ReturnOk >>)

programs_token_sync_native ==
  Function("programs_token_sync_native",
    << Destructure(1),
       RustAssert(Is(is_writable(0))),
       RustAssert(Is(owner_is_program_id(0))),
       InvokeAndReturn("SyncNative", <<0>>, <<>>, NoSigners) >>)

programs_token_thaw_account ==
  Function("programs_token_thaw_account",
    << Destructure(3),
       ReturnErrUnless(Is(is_writable(0)), IAD),
       RustAssert(Is(is_writable(0))),
       ReturnErrUnless(Is(owner_is_program_id(0)), IncorrectProgramId),
       ReturnErrUnless(Is(owner_is_program_id(1)), IncorrectProgramId),
       ReturnErrUnless(Is(is_signer(2)), MRS),
       InvokeAndReturn("ThawAccount", <<0, 1, 2>>, <<>>, NoSigners) >>)

programs_token_transfer_checked ==
  Function("programs_token_transfer_checked",
    << Destructure(4),
       RustAssert(Is(is_writable(0))),
       RustAssert(Is(is_writable(2))),
       RustAssert(Is(is_signer(3))),
       Invoke("TransferChecked", <<0, 1, 2, 3>>, <<"amount", "decimals">>, CallerSigners),
       ReturnOk >>)

AllHandlers ==
  << examples_system_advance_nonce_account, examples_system_allocate,
     examples_system_allocate_with_seed, examples_system_assign,
     examples_system_assign_with_seed, examples_system_authorize_nonce_account,
     examples_system_create_account, examples_system_create_account_with_seed,
     examples_system_initialize_nonce_account, examples_system_transfer_lamports,
     examples_system_transfer_with_seed, examples_system_update_nonce_account,
     examples_system_withdraw_nonce_account,
     examples_token_approve, examples_token_approve_checked, examples_token_burn_checked,
     examples_token_close_account, examples_token_freeze_account,
     examples_token_initialize_account, examples_token_initialize_mint,
     examples_token_mint_to, examples_token_mint_to_checked, examples_token_revoke,
     examples_token_set_authority, examples_token_sync_native, examples_token_thaw_account,
     examples_token_transfer_checked, examples_token_transfer_tokens,
     programs_burn, programs_close_account, programs_initialize_account, programs_mint_to,
     programs_mint_to_checked, programs_revoke, programs_transfer,
     programs_system_advance_nonce_account, programs_system_allocate,
     programs_system_allocate_with_seed, programs_system_assign,
     programs_system_assign_with_seed, programs_system_authorize_nonce_account,
     programs_system_create_account, programs_system_create_account_with_seed,
     programs_system_initialize_nonce_account, programs_system_transfer,
     programs_system_transfer_lamports, programs_system_transfer_with_seed,
     programs_system_update_nonce_account, programs_system_withdraw_nonce_account,
     programs_token_approve, programs_token_approve_checked, programs_token_burn,
     programs_token_burn_checked, programs_token_close_account, programs_token_freeze_account,
     programs_token_mint_to, programs_token_mint_to_checked, programs_token_revoke,
     programs_token_set_authority, programs_token_sync_native, programs_token_thaw_account,
     programs_token_transfer_checked >>

\* The handler of a name, and what its statements say about it.
HandlerNamed(n) == AllHandlers[CHOOSE i \in 1..Len(AllHandlers) : AllHandlers[i].name = n]

\* The number of accounts the handler destructures.
Arity(h) == h.body[CHOOSE i \in 1..Len(h.body) : h.body[i].op = "destructure"].n

\* The parameters of process_<op> that its entry point decodes from the payload.
Decoded(h) == {h.entry[i].name : i \in {j \in 1..Len(h.entry) : h.entry[j].op = "read"}}

\* process_<op> takes a `seed: &str` that no entry point of the file slices out
\* of the payload: the caller supplies it.
SeedFromCaller(h) ==
  /\ \E i \in 1..Len(h.body) :
        \/ h.body[i].op = "invoke" /\ \E j \in 1..Len(h.body[i].args) : h.body[i].args[j] = "seed"
        \/ h.body[i].op = "check" /\ h.body[i].cond.atoms[1].k \in {"seed_len_le_max", "seed_len_gt_max"}
  /\ \A i \in 1..Len(h.entry) : h.entry[i].op # "slice_seed"

\* The account count tested before the payload is looked at.
Run_accounts_first(h, in) ==
  LET st0 == [data |-> in.data, ub |-> in.ub, accounts |-> in.accounts,
              program_id |-> in.program_id, ret |-> in.ret, caller_arg |-> in.caller_arg,
              seed |-> in.seed, seed_len |-> 0, env |-> <<>>,
              result |-> "running", log |-> <<>>, calls |-> <<>>]
      st1 == StepDestructure(Destructure(Arity(h)), st0)
      st2 == IF st1.result # "running" THEN st1 ELSE Exec(h.entry, 1, st0)
  IN IF st2.result # "running" THEN st2
     ELSE Exec(h.body, 1, Logged(st2, Event("enter", 0, 0, TRUE)))

\* One invocation: process_instruction (when the file has one), then process_<op>.
Run(h, in) ==
  LET st0 == [data |-> in.data, ub |-> in.ub, accounts |-> in.accounts,
              program_id |-> in.program_id, ret |-> in.ret, caller_arg |-> in.caller_arg,
              seed |-> in.seed, seed_len |-> 0, env |-> <<>>,
              result |-> "running", log |-> <<>>, calls |-> <<>>]
      st1 == Exec(h.entry, 1, st0)
  IN IF st1.result # "running" THEN st1
     ELSE Exec(h.body, 1, Logged(st1, Event("enter", 0, 0, TRUE)))

\* ------------------------------------------------------------ inputs
AcctKeys == <<"acct0", "acct1", "acct2", "acct3", "acct4", "acct5", "acct6", "acct7", "acct8">>

KeyPatterns == {"token_program_at_3", "rent_sysvar_at_1_and_3", "plain"}
OwnerPatterns == {"token", "other_at_0", "other_at_1"}
ProgramIds == {TOKEN_PROGRAM, SYSTEM_PROGRAM}

KeyAt(k, p) ==
  IF k = "token_program_at_3" /\ p = 3 THEN TOKEN_PROGRAM
  ELSE IF k = "rent_sysvar_at_1_and_3" /\ p \in {1, 3} THEN RENT_ID
  ELSE AcctKeys[p + 1]

OwnerAt(o, p) ==
  IF (o = "other_at_0" /\ p = 0) \/ (o = "other_at_1" /\ p = 1) THEN SYSTEM_PROGRAM
  ELSE TOKEN_PROGRAM

\* The account list with the given is_signer / is_writable rows.
AccountList(n, signer, writable, k, o) ==
  [i \in 1..n |-> [key |-> KeyAt(k, i - 1), owner |-> OwnerAt(o, i - 1),
                   is_signer |-> signer[i], is_writable |-> writable[i]]]

Rows(n) == [1..n -> BOOLEAN]
UniformRows(n) == {[i \in 1..n |-> b] : b \in BOOLEAN}
\* Every flag set, but for at most one.
NearGoodRows(n) == {[i \in 1..n |-> i # x] : x \in 0..n}

CorePayload == [i \in 1..MaxPayloadLen |-> 0]
FillBytes == {0, 5, MAX_SEED_LEN, MAX_SEED_LEN + 1, 200}
\* The bytes matter to the control flow only where a seed length is read.
ReadsSeedLen(h) == \E i \in 1..Len(h.entry) : h.entry[i].op = "read_seed_len"
Payloads(h) ==
  {[i \in 1..n |-> v] : n \in 0..MaxPayloadLen,
                        v \in IF ReadsSeedLen(h) THEN FillBytes ELSE {0, 5}}
CallerArg == <<7>>
CallerSeeds(h) ==
  IF SeedFromCaller(h)
  THEN {[i \in 1..n |-> 97] : n \in {0, MAX_SEED_LEN, MAX_SEED_LEN + 1}}
  ELSE {<<>>}

Input(d, ub, accts, pid, ret, sd) ==
  [data |-> d, ub |-> ub, accounts |-> accts, program_id |-> pid, ret |-> ret,
   caller_arg |-> CallerArg, seed |-> sd]

PayloadOf(h) == IF h.has_entry THEN CorePayload ELSE <<>>

FlagInputsOf(h, n, rows) ==
  { Input(PayloadOf(h), 0, AccountList(n, s, w, k, "token"), TOKEN_PROGRAM, ret, sd) :
      s \in rows, w \in rows, k \in {"token_program_at_3", "rent_sysvar_at_1_and_3"},
      ret \in ExecResults, sd \in CallerSeeds(h) }

\* Every assignment of the flags to every list of at most Arity(h) accounts,
\* and longer lists with uniform flags.
FlagInputs(h) ==
  UNION ( {FlagInputsOf(h, n, Rows(n)) : n \in 0..Arity(h)}
          \cup {FlagInputsOf(h, n, UniformRows(n)) :
                  n \in (Arity(h) + 1)..(Arity(h) + ExtraAccounts)} )

\* Lists of Arity(h) accounts with every key and owner pattern, under either
\* program id.
IdentityInputs(h) ==
  { Input(PayloadOf(h), 0, AccountList(Arity(h), s, w, k, o), pid, "Ok", sd) :
      s \in NearGoodRows(Arity(h)), w \in NearGoodRows(Arity(h)), k \in KeyPatterns,
      o \in OwnerPatterns, pid \in ProgramIds, sd \in CallerSeeds(h) }

GoodAccounts(h, k) ==
  AccountList(Arity(h), [i \in 1..Arity(h) |-> TRUE], [i \in 1..Arity(h) |-> TRUE], k, "token")

FlaglessAccounts(h) ==
  AccountList(Arity(h), [i \in 1..Arity(h) |-> FALSE], [i \in 1..Arity(h) |-> FALSE],
              "token_program_at_3", "token")

\* Every payload with Arity(h) accounts that have every flag set (and every
\* outcome of a read beyond the payload), with Arity(h) accounts that have no
\* flag set, and with no account.
PayloadInputs(h) ==
  IF ~h.has_entry THEN {}
  ELSE { Input(d, ub, GoodAccounts(h, "token_program_at_3"), TOKEN_PROGRAM, "Ok", sd) :
           d \in Payloads(h), ub \in UbOutcomes, sd \in CallerSeeds(h) }
       \cup
       { Input(d, 0, accts, TOKEN_PROGRAM, "Ok", sd) :
           d \in Payloads(h),
           accts \in {<<>>, GoodAccounts(h, "rent_sysvar_at_1_and_3"), FlaglessAccounts(h)},
           sd \in CallerSeeds(h) }

\* u64::to_le_bytes of a value held as four 16-bit limbs.
to_le_bytes(v) ==
  [i \in 1..8 |-> IF i % 2 = 1 THEN v[(i + 1) \div 2] % 256 ELSE v[i \div 2] \div 256]

\* 0, 1000, 6_9420 (the amount of mint_to_test), a value whose eight bytes
\* differ, and u64::MAX.
Amounts ==
  {<<0, 0, 0, 0>>, <<1000, 0, 0, 0>>, <<3884, 1, 0, 0>>, <<513, 1027, 1541, 2055>>,
   <<65535, 65535, 65535, 65535>>}
Bumps == {0, 7, 255}

\* Payloads a client encodes as amount.to_le_bytes() ++ [bump], with writable
\* accounts of which at most one is not a signer.
EncodedInputs(h) ==
  IF ~h.has_entry THEN {}
  ELSE { Input(to_le_bytes(v) \o <<b>>, 0,
               AccountList(Arity(h), s, [i \in 1..Arity(h) |-> TRUE], "token_program_at_3", "token"),
               TOKEN_PROGRAM, ret, sd) :
           v \in Amounts, b \in Bumps, s \in NearGoodRows(Arity(h)), ret \in ExecResults,
           sd \in CallerSeeds(h) }

\* Payloads of the handlers that slice a seed out of the payload: a seed of
\* 0 to 2 bytes, ASCII or not, after its length byte, and enough bytes after
\* it for every field.
SeedBytes == {97, 128, 255}
SeedInputs(h) ==
  IF ~ReadsSeedLen(h) THEN {}
  ELSE LET off == h.entry[CHOOSE i \in 1..Len(h.entry) : h.entry[i].op = "read_seed_len"].off
       IN { Input([i \in 1..off |-> 0] \o <<n>> \o [i \in 1..n |-> b] \o [i \in 1..60 |-> 0],
                  0, GoodAccounts(h, "token_program_at_3"), TOKEN_PROGRAM, ret, <<>>) :
              n \in 0..2, b \in SeedBytes, ret \in ExecResults }

Inputs(h) ==
  FlagInputs(h) \cup IdentityInputs(h) \cup PayloadInputs(h) \cup EncodedInputs(h)
  \cup SeedInputs(h)

\* ------------------------------------------------------------ the state machine
Init ==
  /\ pc = "idle"
  /\ handler = ""
  /\ data = <<>>
  /\ accounts = <<>>
  /\ program_id = TOKEN_PROGRAM
  /\ seed = <<>>
  /\ result = ""
  /\ log = <<>>
  /\ calls = <<>>

\* The runtime calls the handler h with one instruction; the handler runs to
\* completion.
Invocation(h) ==
  /\ pc = "idle"
  /\ \E in \in Inputs(h) :
       LET st == Run(h, in)
       IN /\ pc' = "done"
          /\ handler' = h.name
          /\ data' = in.data
          /\ accounts' = in.accounts
          /\ program_id' = in.program_id
          /\ seed' = st.seed
          /\ result' = st.result
          /\ log' = st.log
          /\ calls' = st.calls

\* The result is surfaced to the runtime; nothing of the invocation is kept.
Return ==
  /\ pc = "done"
  /\ pc' = "idle"
  /\ handler' = ""
  /\ data' = <<>>
  /\ accounts' = <<>>
  /\ program_id' = TOKEN_PROGRAM
  /\ seed' = <<>>
  /\ result' = ""
  /\ log' = <<>>
  /\ calls' = <<>>

Next ==
  \/ Invocation(examples_system_advance_nonce_account)
  \/ Invocation(examples_system_allocate)
  \/ Invocation(examples_system_allocate_with_seed)
  \/ Invocation(examples_system_assign)
  \/ Invocation(examples_system_assign_with_seed)
  \/ Invocation(examples_system_authorize_nonce_account)
  \/ Invocation(examples_system_create_account)
  \/ Invocation(examples_system_create_account_with_seed)
  \/ Invocation(examples_system_initialize_nonce_account)
  \/ Invocation(examples_system_transfer_lamports)
  \/ Invocation(examples_system_transfer_with_seed)
  \/ Invocation(examples_system_update_nonce_account)
  \/ Invocation(examples_system_withdraw_nonce_account)
  \/ Invocation(examples_token_approve)
  \/ Invocation(examples_token_approve_checked)
  \/ Invocation(examples_token_burn_checked)
  \/ Invocation(examples_token_close_account)
  \/ Invocation(examples_token_freeze_account)
  \/ Invocation(examples_token_initialize_account)
  \/ Invocation(examples_token_initialize_mint)
  \/ Invocation(examples_token_mint_to)
  \/ Invocation(examples_token_mint_to_checked)
  \/ Invocation(examples_token_revoke)
  \/ Invocation(examples_token_set_authority)
  \/ Invocation(examples_token_sync_native)
  \/ Invocation(examples_token_thaw_account)
  \/ Invocation(examples_token_transfer_checked)
  \/ Invocation(examples_token_transfer_tokens)
  \/ Invocation(programs_burn)
  \/ Invocation(programs_close_account)
  \/ Invocation(programs_initialize_account)
  \/ Invocation(programs_mint_to)
  \/ Invocation(programs_mint_to_checked)
  \/ Invocation(programs_revoke)
  \/ Invocation(programs_transfer)
  \/ Invocation(programs_system_advance_nonce_account)
  \/ Invocation(programs_system_allocate)
  \/ Invocation(programs_system_allocate_with_seed)
  \/ Invocation(programs_system_assign)
  \/ Invocation(programs_system_assign_with_seed)
  \/ Invocation(programs_system_authorize_nonce_account)
  \/ Invocation(programs_system_create_account)
  \/ Invocation(programs_system_create_account_with_seed)
  \/ Invocation(programs_system_initialize_nonce_account)
  \/ Invocation(programs_system_transfer)
  \/ Invocation(programs_system_transfer_lamports)
  \/ Invocation(programs_system_transfer_with_seed)
  \/ Invocation(programs_system_update_nonce_account)
  \/ Invocation(programs_system_withdraw_nonce_account)
  \/ Invocation(programs_token_approve)
  \/ Invocation(programs_token_approve_checked)
  \/ Invocation(programs_token_burn)
  \/ Invocation(programs_token_burn_checked)
  \/ Invocation(programs_token_close_account)
  \/ Invocation(programs_token_freeze_account)
  \/ Invocation(programs_token_mint_to)
  \/ Invocation(programs_token_mint_to_checked)
  \/ Invocation(programs_token_revoke)
  \/ Invocation(programs_token_set_authority)
  \/ Invocation(programs_token_sync_native)
  \/ Invocation(programs_token_thaw_account)
  \/ Invocation(programs_token_transfer_checked)
  \/ Return

Spec == Init /\ [][Next]_vars

\* ------------------------------------------------------------ sequences of invocations
\* Payloads around the guards of the handlers below, with no account, with
\* good accounts and with accounts that have no flag set.
ReplayInputs(h) ==
  { Input([i \in 1..n |-> v], ub, accts, TOKEN_PROGRAM, ret, sd) :
      n \in IF h.has_entry THEN {8, 9, 10} ELSE {0}, v \in {0, 5},
      ub \in UbOutcomes,
      accts \in {<<>>, GoodAccounts(h, "token_program_at_3"), FlaglessAccounts(h)},
      ret \in ExecResults, sd \in CallerSeeds(h) }

\* The handler is invoked again, after whatever invocation came before.
Reinvocation(h) ==
  /\ pc = "idle"
  /\ \E in \in ReplayInputs(h) :
       LET st == Run(h, in)
       IN /\ pc' = "done"
          /\ handler' = h.name
          /\ data' = in.data
          /\ accounts' = in.accounts
          /\ program_id' = in.program_id
          /\ seed' = st.seed
          /\ result' = st.result
          /\ log' = st.log
          /\ calls' = st.calls

\* The handler has returned; the record of the invocation stays with the
\* observer until the next one (the handler keeps nothing of it).
ReturnObserved ==
  /\ pc = "done"
  /\ pc' = "idle"
  /\ UNCHANGED <<handler, data, accounts, program_id, seed, result, log, calls>>

NextReplay ==
  \/ Reinvocation(examples_token_mint_to_checked)
  \/ Reinvocation(programs_transfer)
  \/ Reinvocation(examples_system_allocate)
  \/ Reinvocation(programs_burn)
  \/ ReturnObserved

SpecReplay == Init /\ [][NextReplay]_vars

\* ------------------------------------------------------------ accounts before and after
\* u64::checked_add on four 16-bit limbs.
checked_add(a, b) ==
  LET s1 == a[1] + b[1]
      s2 == a[2] + b[2] + s1 \div 65536
      s3 == a[3] + b[3] + s2 \div 65536
      s4 == a[4] + b[4] + s3 \div 65536
  IN [sum |-> <<s1 % 65536, s2 % 65536, s3 % 65536, s4 % 65536>>, overflow |-> s4 >= 65536]

\* The accounts with what the runtime holds for them: lamports, and the amount
\* field of a token account's data (0 in mint_to_test).
InitialAmounts == {<<0, 0, 0, 0>>, <<1000, 0, 0, 0>>}
WithBalances(accts, amt) ==
  [i \in 1..Len(accts) |-> accts[i] @@ [lamports |-> 1000000 * i, amount |-> amt]]

\* Payloads amount.to_le_bytes() ++ [bump], the same without the bump, and the
\* empty payload; accounts with at most one flag of each kind missing.
FrameInputs(h) ==
  { Input(d, 0, accts, TOKEN_PROGRAM, "Ok", <<>>) :
      d \in {to_le_bytes(v) \o <<b>> : v \in Amounts, b \in Bumps}
             \cup {to_le_bytes(v) : v \in Amounts} \cup {<<>>},
      accts \in {WithBalances(AccountList(Arity(h), s, w, "token_program_at_3", "token"), amt) :
                   s \in NearGoodRows(Arity(h)), w \in NearGoodRows(Arity(h)),
                   amt \in InitialAmounts}
                \cup {<<>>} }

\* The token program's MintTo as mint_to_test observes it: the token
\* account's amount grows by the amount of the instruction.
MintToEffect(accts, call) ==
  [i \in 1..Len(accts) |->
     IF accts[i].key = call.accts[2]
     THEN [accts[i] EXCEPT !.amount = checked_add(@, call.args[1][2]).sum]
     ELSE accts[i]]

MintToOverflows(accts, call) ==
  \E i \in 1..Len(accts) :
     accts[i].key = call.accts[2] /\ checked_add(accts[i].amount, call.args[1][2]).overflow

\* What the instruction handed over does to the accounts. Only MintTo has an
\* effect a test of the repository observes; an instruction that returns an
\* error has none.
ExecutorEffect(accts, cs) ==
  IF cs # <<>> /\ cs[1].returned = "Ok" /\ cs[1].instr = "MintTo"
  THEN MintToEffect(accts, cs[1])
  ELSE accts

\* The runtime hands the handler one instruction with its accounts.
Submitted(h) ==
  /\ pc = "idle"
  /\ \E in \in FrameInputs(h) :
       /\ pc' = "called"
       /\ handler' = h.name
       /\ data' = in.data
       /\ accounts' = in.accounts
       /\ program_id' = in.program_id
       /\ seed' = in.seed
       /\ result' = ""
       /\ log' = <<>>
       /\ calls' = <<>>

\* The handler runs to completion on the instruction submitted; the accounts
\* are then as the handler and the instruction it invoked left them.
Executed ==
  /\ pc = "called"
  /\ \E ub \in UbOutcomes, ret \in ExecResults :
       LET st == Run(HandlerNamed(handler), Input(data, ub, accounts, program_id, ret, seed))
       IN /\ (st.calls # <<>> /\ st.calls[1].instr = "MintTo" /\ ret = "Ok")
               => ~MintToOverflows(st.accounts, st.calls[1])
          /\ pc' = "done"
          /\ accounts' = ExecutorEffect(st.accounts, st.calls)
          /\ seed' = st.seed
          /\ result' = st.result
          /\ log' = st.log
          /\ calls' = st.calls
          /\ UNCHANGED <<handler, data, program_id>>

NextFrame ==
  \/ Submitted(examples_token_transfer_checked)
  \/ Submitted(examples_system_withdraw_nonce_account)
  \/ Submitted(programs_token_mint_to)
  \/ Submitted(examples_token_mint_to)
  \/ Executed
  \/ Return

SpecFrame == Init /\ [][NextFrame]_vars

\* ------------------------------------------------------------ properties
Done == pc = "done"
H == HandlerNamed(handler)
Events(ev) == {i \in 1..Len(log) : log[i].ev = ev}
Entered == Events("enter") # {}
Stmts(stmts, op) == {i \in 1..Len(stmts) : stmts[i].op = op}
\* The accounts, program id and seed of the invocation, as the conditions read them.
Seen == [accounts |-> accounts, program_id |-> program_id, seed |-> seed]

\* C1: in every handler the Executor is called at most once, and only after the
\* payload length guards, the account-count check and every role check written
\* in the handler have passed, as the last step; an invocation in which a guard
\* or a check fails, or that ends with an error of decoding or validation,
\* calls the Executor zero times.
C1_ExecutorOnlyAfterEveryCheck ==
  Done =>
    /\ Len(calls) <= 1
    /\ Cardinality(Events("invoke")) = Len(calls)
    /\ calls # <<>> =>
         /\ \A i \in 1..Len(log) :
               log[i].ev \in {"len_guard", "destructure", "check"} =>
                  log[i].ok /\ \A j \in Events("invoke") : i < j
         /\ Cardinality(Events("len_guard")) = Cardinality(Stmts(H.entry, "len_guard"))
         /\ Cardinality(Events("destructure")) = 1
         /\ Cardinality(Events("check")) = Cardinality(Stmts(H.body, "check"))
    /\ (\E i \in 1..Len(log) :
           log[i].ev \in {"len_guard", "destructure", "check"} /\ ~log[i].ok) => calls = <<>>
    /\ result \in {InvalidInstructionData, NotEnoughAccountKeys, InvalidAccountData,
                   MissingRequiredSignature, IncorrectProgramId, InvalidSeeds, Panic,
                   AccessViolation} => calls = <<>>

C1_Witness ==
  /\ Done /\ handler = "examples_token_burn_checked"
  /\ Len(calls) = 1 /\ result = "Ok" /\ Cardinality(Events("check")) = 3

\* C2: a payload shorter than the operation's minimum length (9 bytes for the
\* amount + bump layout of MintTo / Approve / Allocate, 8 bytes for the token
\* Transfer; 7 bytes is too short for every entry point that has a guard) makes
\* process_instruction return InvalidInstructionData before anything is read,
\* before any account check, and without a call of the Executor.
C2_ShortPayloadRejected ==
  (/\ Done
   /\ \/ handler \in {"examples_token_mint_to", "programs_token_mint_to",
                      "examples_token_approve", "examples_system_allocate"} /\ Len(data) < 9
      \/ handler \in {"programs_transfer", "examples_token_transfer_tokens"} /\ Len(data) < 8
      \/ Stmts(H.entry, "len_guard") # {} /\ Len(data) <= 7)
  => /\ result = InvalidInstructionData
     /\ calls = <<>>
     /\ \A i \in 1..Len(log) : log[i].ev = "len_guard"

C2_Witness ==
  /\ Done /\ handler = "examples_token_mint_to" /\ Len(data) = 8 /\ Len(accounts) = 4
  /\ result = InvalidInstructionData

\* C3: in the checked token handlers every payload that passes the length guard
\* covers every field read (amount at 0..8, decimals at 8, bump at 9).
CheckedHandlers ==
  {"examples_token_approve_checked", "examples_token_burn_checked",
   "examples_token_mint_to_checked", "examples_token_transfer_checked",
   "programs_token_approve_checked", "programs_token_mint_to_checked"}

C3_CheckedReadsInBounds ==
  (Done /\ handler \in CheckedHandlers) =>
     \A i \in Events("read") : log[i].a + log[i].b <= Len(data)

\* C4: in the CreateAccount handler every payload that passes the length guard
\* covers lamports (0..8), space (8..16), owner (16..48) and bump (48).
C4_CreateAccountReadsInBounds ==
  (Done /\ handler = "examples_system_create_account") =>
     \A i \in Events("read") : log[i].a + log[i].b <= Len(data)

\* C5: in the with-seed entry points a payload whose seed-length byte declares
\* more bytes than remain, counting the fixed fields after the seed, is
\* rejected with InvalidInstructionData; in every accepted payload the seed
\* slice and every field lie inside the payload.
SeedLenOffset(n) == IF n = "examples_system_transfer_with_seed" THEN 8 ELSE 0
FixedAfterSeed(n) ==
  CASE n = "examples_system_allocate_with_seed" -> 8 + 32 + 1
    [] n = "examples_system_assign_with_seed" -> 32 + 1
    [] n = "examples_system_create_account_with_seed" -> 8 + 8 + 32 + 1
    [] n = "examples_system_transfer_with_seed" -> 32 + 1

WithSeedEntryPoints ==
  {"examples_system_allocate_with_seed", "examples_system_assign_with_seed",
   "examples_system_create_account_with_seed", "examples_system_transfer_with_seed"}

C5_SeedLengthBounded ==
  (Done /\ handler \in WithSeedEntryPoints) =>
    LET off == SeedLenOffset(handler)
    IN /\ (Len(data) > off /\ off + 1 + data[off + 1] + FixedAfterSeed(handler) > Len(data))
            => result = InvalidInstructionData /\ calls = <<>>
       /\ Entered =>
            /\ Cardinality(Events("slice")) = 1
            /\ \A i \in Events("read") \cup Events("slice") :
                  log[i].ok /\ log[i].a + log[i].b <= Len(data)

C5_Witness ==
  /\ Done /\ handler = "examples_system_transfer_with_seed"
  /\ Len(data) >= 41 /\ data[9] = 200 /\ result = InvalidInstructionData

\* C6: process_<op> called with a list of accounts whose length differs from
\* the number it destructures, shorter or longer, returns NotEnoughAccountKeys
\* and does not call the Executor.
C6_ArityExact ==
  (Done /\ Entered /\ Len(accounts) # Arity(H)) =>
     result = NotEnoughAccountKeys /\ calls = <<>>

C6_Witness ==
  /\ Done /\ handler = "examples_token_approve" /\ Entered
  /\ Len(accounts) = 4 /\ \A i \in 1..4 : accounts[i].is_signer /\ accounts[i].is_writable
  /\ result = NotEnoughAccountKeys

\* C7: CreateAccount and CreateAccountWithSeed call the Executor only when the
\* funding account (0) and the new account (1) are both signers.
C7_CreateAccountBothSigners ==
  (/\ Done
   /\ handler \in {"examples_system_create_account", "programs_system_create_account",
                   "examples_system_create_account_with_seed",
                   "programs_system_create_account_with_seed"}
   /\ calls # <<>>)
  => accounts[1].is_signer /\ accounts[2].is_signer

\* C8: the system Transfer handler calls the Executor only when the source (0)
\* is writable and a signer and the destination (1) is writable.
SystemTransferHandlers ==
  {"examples_system_transfer_lamports", "programs_system_transfer",
   "programs_system_transfer_lamports"}

C8_TransferSourceWritableSigner ==
  (Done /\ handler \in SystemTransferHandlers /\ calls # <<>>) =>
     accounts[1].is_writable /\ accounts[1].is_signer /\ accounts[2].is_writable

\* C9 (as the code has it): where process_<op> writes
\* `if !account_k.is_signer() { return Err(MissingRequiredSignature) }`, an
\* account k that is not a signer makes the handler fail without a call of the
\* Executor whatever the other flags are, and the failure is
\* MissingRequiredSignature whenever every check written before that one passes.
SignerChecks(h) ==
  {i \in Stmts(h.body, "check") :
     /\ ~h.body[i].panics /\ h.body[i].err = MissingRequiredSignature
     /\ \E j \in 1..Len(h.body[i].cond.atoms) : h.body[i].cond.atoms[j].k = "is_signer"}
SignerPositions(h, i) ==
  {h.body[i].cond.atoms[j].p :
     j \in {n \in 1..Len(h.body[i].cond.atoms) : h.body[i].cond.atoms[n].k = "is_signer"}}
EarlierChecksPass(h, i) ==
  \A j \in Stmts(h.body, "check") : j < i => CondHolds(h.body[j].cond, Seen)

C9_MissingSignerFailsFast ==
  (Done /\ Entered /\ Len(accounts) = Arity(H)) =>
    \A i \in SignerChecks(H) : \A k \in SignerPositions(H, i) :
       ~accounts[k + 1].is_signer =>
          /\ calls = <<>>
          /\ result \notin ExecResults
          /\ EarlierChecksPass(H, i) => result = MissingRequiredSignature

C9_Witness ==
  /\ Done /\ handler = "examples_token_burn_checked" /\ Len(accounts) = 3
  /\ accounts[1].is_writable /\ accounts[2].is_writable /\ ~accounts[3].is_signer
  /\ result = MissingRequiredSignature

\* C9 (as stated): in Burn / BurnChecked an authority (position 2) that is not
\* a signer yields MissingRequiredSignature whatever the flags of the other
\* positions are.
C9_SignerPositionAloneDecides ==
  (/\ Done /\ Entered /\ Len(accounts) = 3
   /\ handler \in {"examples_token_burn_checked", "programs_burn", "programs_token_burn"}
   /\ ~accounts[3].is_signer)
  => result = MissingRequiredSignature

\* C10: in the system Transfer handler a source that is a signer and not
\* writable yields InvalidAccountData, and MissingRequiredSignature is returned
\* only when the flag of a required signer is false.
C10_RoleErrorKinds ==
  (Done /\ handler = "examples_system_transfer_lamports" /\ Entered /\ Len(accounts) = 2) =>
    /\ (accounts[1].is_signer /\ ~accounts[1].is_writable) => result = InvalidAccountData
    /\ result = MissingRequiredSignature => ~accounts[1].is_signer

\* C11 (as the code has it): the token Transfer handler calls the Executor only
\* when the owners of the sender (0) and of the recipient (1) both equal the
\* key of the token program account (3); if either differs the invocation is
\* rejected without a call, and, when sender and recipient are both writable
\* (the checks written before the owner check), the rejection is
\* IncorrectProgramId in the error-return variant and the failed assert_eq!
\* in the assertion variant.
TokenTransferHandlers == {"programs_transfer", "examples_token_transfer_tokens"}
OwnersMatchTokenProgram ==
  accounts[1].owner = accounts[4].key /\ accounts[2].owner = accounts[4].key

TypedErrors ==
  {InvalidInstructionData, NotEnoughAccountKeys, InvalidAccountData,
   MissingRequiredSignature, IncorrectProgramId, InvalidSeeds}

C12_ValidationFailuresAreTypedErrors ==
  Done =>
    /\ result # Panic
    /\ (\E i \in Events("check") : ~log[i].ok) => result \in TypedErrors

\* C13: AllocateWithSeed and AssignWithSeed call the Executor only when the
\* seed is at most MAX_SEED_LEN bytes long: a longer seed is rejected, and a
\* seed of 0..MAX_SEED_LEN bytes passes the seed-length validation (the
\* Executor is reached when every account flag is as required).
SeedCheckedHandlers ==
  {"examples_system_allocate_with_seed", "examples_system_assign_with_seed",
   "programs_system_allocate_with_seed", "programs_system_assign_with_seed"}

C13_SeedLengthAtMostMax ==
  (Done /\ handler \in SeedCheckedHandlers /\ Entered /\ Len(accounts) = Arity(H)) =>
    /\ calls # <<>> => Len(seed) <= MAX_SEED_LEN
    /\ Len(seed) > MAX_SEED_LEN => calls = <<>> /\ result \notin ExecResults
    /\ (/\ Len(seed) <= MAX_SEED_LEN
        /\ \A i \in 1..Len(accounts) : accounts[i].is_signer /\ accounts[i].is_writable)
       => calls # <<>>

\* C14: the lamport Transfer with the payload to_le_bytes(1000) ++ [7] and the
\* accounts [A writable signer, B writable] decodes amount = 1000 and bump = 7,
\* passes validation and calls the Executor once with (A, B) and amount 1000.
C14_TransferScenario ==
  (/\ Done /\ handler = "examples_system_transfer_lamports"
   /\ data = to_le_bytes(<<1000, 0, 0, 0>>) \o <<7>>
   /\ Len(accounts) = 2
   /\ accounts[1].is_writable /\ accounts[1].is_signer /\ accounts[2].is_writable)
  => /\ Len(calls) = 1
     /\ calls[1].accts = <<accounts[1].key, accounts[2].key>>
     /\ calls[1].args = << <<"lamports", <<1000, 0, 0, 0>>>> >>
     /\ calls[1].signers = <<"from_account", <<7>>>>

\* C15: for every amount and bump, the MintTo / Approve / Allocate entry points
\* decode the payload to_le_bytes(amount) ++ [bump] to that amount (bytes
\* 0..8, little-endian) and that bump (byte 8), and hand the Executor exactly
\* these values: the amount as the instruction's argument, the bump in the
\* signer seeds.
AmountBumpHandlers ==
  {"examples_token_mint_to", "programs_token_mint_to", "examples_token_approve",
   "examples_system_allocate"}

C15_AmountBumpRoundTrip ==
  (Done /\ handler \in AmountBumpHandlers) =>
    \A v \in Amounts, b \in Bumps :
       (data = to_le_bytes(v) \o <<b>> /\ Entered) =>
          /\ \A i \in Events("read") : log[i].ok
          /\ \A i \in 1..Len(calls) :
                /\ Len(calls[i].args) = 1
                /\ calls[i].args[1][2] = v
                /\ calls[i].signers[2] = <<b>>
          /\ (/\ Len(accounts) = Arity(H)
              /\ \A i \in 1..Len(accounts) : accounts[i].is_signer /\ accounts[i].is_writable)
                => Len(calls) = 1

C15_Witness ==
  /\ Done /\ handler = "programs_token_mint_to"
  /\ data = to_le_bytes(<<513, 1027, 1541, 2055>>) \o <<255>>
  /\ Len(calls) = 1 /\ calls[1].args[1][2] = <<513, 1027, 1541, 2055>>
  /\ calls[1].signers[2] = <<255>>

\* C16: whenever the payload length guards, the account-count check and every
\* role check of a handler pass, the handler calls the Executor exactly once,
\* as its last step, with the accounts at the positions the handler bound and
\* with the arguments decoded from the payload (or, where the entry point
\* decodes none, handed in by the caller), and the handler's result is Ok
\* exactly when the Executor returned Ok.
AllChecksPassed ==
  /\ Cardinality(Events("len_guard")) = Cardinality(Stmts(H.entry, "len_guard"))
  /\ Cardinality(Events("destructure")) = 1
  /\ Cardinality(Events("check")) = Cardinality(Stmts(H.body, "check"))
  /\ \A i \in Events("len_guard") \cup Events("destructure") \cup Events("check") : log[i].ok

\* The value the payload holds for the argument `a` = <<name, value>>.
ArgDecoded(h, a) ==
  IF a[1] = "seed" THEN a[2] = seed
  ELSE IF \E i \in Stmts(h.entry, "read") : h.entry[i].name = a[1]
  THEN \A i \in Stmts(h.entry, "read") :
          h.entry[i].name = a[1] =>
             LET off == h.entry[i].off + (IF h.entry[i].rel THEN Len(seed) ELSE 0)
                 width == h.entry[i].width
                 bs == SubSeq(data, off + 1, off + width)
             IN off + width <= Len(data) =>
                  IF width = 8 THEN Len(a[2]) = 4 /\ to_le_bytes(a[2]) = bs ELSE a[2] = bs
  ELSE a[2] = CallerArg

C16_ExactlyOneCallWhenValid ==
  (Done /\ AllChecksPassed) =>
    /\ Len(calls) = 1
    /\ Cardinality(Events("invoke")) = 1
    /\ log[Len(log)].ev = "invoke"
    /\ \A j \in Stmts(H.body, "invoke") :
          /\ calls[1].instr = H.body[j].instr
          /\ Len(calls[1].accts) = Len(H.body[j].accts)
          /\ \A i \in 1..Len(calls[1].accts) :
                calls[1].accts[i] = accounts[H.body[j].accts[i] + 1].key
          /\ Len(calls[1].args) = Len(H.body[j].args)
    /\ \A i \in 1..Len(calls[1].args) : ArgDecoded(H, calls[1].args[i])
    /\ result = calls[1].returned
    /\ result = "Ok" <=> calls[1].returned = "Ok"

C16_Witness ==
  /\ Done /\ handler = "examples_token_approve" /\ AllChecksPassed
  /\ data = to_le_bytes(<<1000, 0, 0, 0>>) \o <<7>>
  /\ Len(calls) = 1 /\ calls[1].returned = "Custom" /\ result = "Custom"

\* C17: when the Executor returns an error e the handler returns exactly e and
\* does not call the Executor again in that invocation.
C17_ExecutorErrorPropagates ==
  (Done /\ \E i \in 1..Len(calls) : calls[i].returned # "Ok") =>
    /\ Len(calls) = 1
    /\ Cardinality(Events("invoke")) = 1
    /\ result = calls[1].returned

C17_Witness ==
  /\ Done /\ handler = "examples_token_sync_native"
  /\ Len(calls) = 1 /\ calls[1].returned = "Custom" /\ result = "Custom"

\* C18: decoding precedes the validation of the accounts: in every handler
\* that has a payload length guard, a payload that a guard rejects yields
\* InvalidInstructionData whatever the account list is (wrong count, flags not
\* set), and no account is looked at before the payload has been accepted.
SeedLenByte(h) ==
  LET i == CHOOSE j \in Stmts(h.entry, "read_seed_len") : TRUE
  IN data[h.entry[i].off + 1]
\* What the i-th statement, a guard, demands of the payload's length.
GuardNeed(h, i) == h.entry[i].n + (IF h.entry[i].rel THEN SeedLenByte(h) ELSE 0)
TooShort(h) ==
  \E i \in Stmts(h.entry, "len_guard") :
     /\ Len(data) < GuardNeed(h, i)
     /\ \A j \in Stmts(h.entry, "len_guard") : j < i => ~(Len(data) < GuardNeed(h, j))
AccountEvents == Events("destructure") \cup Events("check")

C18_DecodingPrecedesValidation ==
  Done =>
    /\ (Stmts(H.entry, "len_guard") # {} /\ TooShort(H)) =>
          /\ result = InvalidInstructionData
          /\ AccountEvents = {}
          /\ calls = <<>>
    /\ \A i \in AccountEvents :
          \A j \in Events("len_guard") \cup Events("read") \cup Events("slice") : j < i

C18_Witness ==
  /\ Done /\ handler = "examples_token_close_account"
  /\ Len(data) = 7 /\ Len(accounts) = 3 /\ ~accounts[1].is_writable /\ ~accounts[3].is_signer
  /\ result = InvalidInstructionData

\* C19: the payload length guard of a handler equals the sum of the widths of
\* the fields it decodes, so the decoder accepts exactly the payloads at least
\* that long; the handlers that decode a 1-byte bump only (CloseAccount,
\* FreezeAccount, Revoke, UpdateNonceAccount) accept every payload of one byte
\* or more.
RECURSIVE SumOfWidths(_, _)
SumOfWidths(stmts, i) ==
  IF i > Len(stmts) THEN 0
  ELSE (IF stmts[i].op = "read" THEN stmts[i].width ELSE 0) + SumOfWidths(stmts, i + 1)

BumpOnlyHandlers ==
  {"examples_token_close_account", "examples_token_freeze_account", "examples_token_revoke",
   "examples_system_update_nonce_account"}

C19_GuardIsSumOfWidths ==
  Done =>
    /\ handler \in BumpOnlyHandlers => (Len(data) >= 1 <=> Entered)
    /\ (/\ Stmts(H.entry, "len_guard") # {} /\ Stmts(H.entry, "read") # {}
        /\ Stmts(H.entry, "read_seed_len") = {})
       => (Len(data) >= SumOfWidths(H.entry, 1) <=> Entered)

\* C20: a handler goes past its account-count check with exactly the lengths
\* of account list that its `### Accounts` doc comment enumerates: three for
\* AdvanceNonceAccount and MintTo, two or three for CreateAccountWithSeed
\* (whose base account is documented OPTIONAL).
DocumentedAccounts(n) ==
  CASE n = "examples_system_advance_nonce_account" -> {3}
    [] n = "programs_token_mint_to" -> {3}
    [] n = "examples_system_create_account_with_seed" -> {2, 3}

C20_AcceptsDocumentedAccounts ==
  (/\ Done /\ Entered
   /\ handler \in {"examples_system_advance_nonce_account", "programs_token_mint_to",
                   "examples_system_create_account_with_seed"})
  => (Len(accounts) \in DocumentedAccounts(handler) <=> result # NotEnoughAccountKeys)

\* C21: invocations are independent: an invocation that follows another one of
\* the same handler with the same payload and the same accounts has the same
\* outcome (the error value, or the instruction, accounts, arguments and
\* signer seeds handed to the Executor).
Outcome(res, cs) ==
  IF cs = <<>> THEN <<res>>
  ELSE <<cs[1].instr, cs[1].accts, cs[1].args, cs[1].signers>>

C21_SameInputSameOutcome ==
  [][(/\ pc = "idle" /\ pc' = "done"
      /\ handler' = handler /\ data' = data /\ accounts' = accounts
      /\ program_id' = program_id)
     => Outcome(result', calls') = Outcome(result, calls)]_vars

\* C22: a handler that ends with a decode or validation error, that is with
\* an error and before any instruction is invoked, leaves every account
\* supplied as it was: flags, owner, key, lamports and data.
C22_ErrorLeavesAccountsUnchanged ==
  [][(pc = "called" /\ pc' = "done" /\ result' # "Ok" /\ calls' = <<>>)
     => accounts' = accounts]_vars

\* A validation error of withdraw_nonce_account on five accounts.
C22_Witness ==
  /\ pc = "done"
  /\ handler = "examples_system_withdraw_nonce_account"
  /\ result = MissingRequiredSignature
  /\ calls = <<>>
  /\ Len(accounts) = 5
  /\ accounts[1].is_writable /\ accounts[1].lamports > 0

AdvanceNonceHandlers ==
  {"examples_system_advance_nonce_account", "programs_system_advance_nonce_account"}

\* C24: AdvanceNonceAccount puts no requirement on the payload: with four
\* accounts, whatever the payload (the empty one included), a signer nonce
\* authority means AdvanceNonceAccount is invoked once and the handler returns
\* what it returns, no error of its own; a nonce authority that is not a
\* signer means MissingRequiredSignature and no call.
C24_AdvanceNonceIgnoresPayload ==
  (Done /\ handler \in AdvanceNonceHandlers /\ Len(accounts) = 4)
  => IF accounts[3].is_signer
     THEN /\ Len(calls) = 1
          /\ calls[1].instr = "AdvanceNonceAccount"
          /\ calls[1].accts = <<accounts[1].key, accounts[2].key, accounts[3].key>>
          /\ result = calls[1].returned
     ELSE result = MissingRequiredSignature /\ calls = <<>>

\* The empty payload reaches the instruction.
C24_Witness ==
  /\ Done
  /\ handler = "examples_system_advance_nonce_account"
  /\ data = <<>>
  /\ Len(accounts) = 4 /\ accounts[3].is_signer
  /\ Len(calls) = 1 /\ result = "Ok"

\* C25: the checks run position by position, every check on position i
\* before any check on position i + 1, so the error reported is the first
\* failing check of the lowest invalid position: programs/src/transfer.rs
\* with a sender of another owner and a recipient that is not writable
\* reports the sender's owner mismatch.
C25_ChecksPositionByPosition ==
  Done
  => /\ handler \in {"programs_transfer", "programs_token_thaw_account"}
          => \A i \in Events("check"), j \in Events("check") : i < j => log[i].a <= log[j].a
     /\ (/\ handler = "programs_transfer"
         /\ Entered
         /\ Len(accounts) = 4
         /\ accounts[1].is_writable
         /\ accounts[1].owner # accounts[4].key
         /\ ~accounts[2].is_writable)
        => result = IncorrectProgramId

\* C26: the assertion style and the early-return style WithdrawNonceAccount
\* are one operation: on the same five accounts and payload, one invokes the
\* instruction exactly when the other does, and then both require the nonce
\* account writable, the recipient writable and the authority a signer.
C26_WithdrawNonceVariantsAgree ==
  (Done /\ handler = "examples_system_withdraw_nonce_account" /\ Entered /\ Len(accounts) = 5)
  => LET other == Run(programs_system_withdraw_nonce_account,
                      Input(data, 0, accounts, program_id, "Ok", seed))
     IN /\ (calls # <<>>) <=> (other.calls # <<>>)
        /\ calls # <<>>
             => accounts[1].is_writable /\ accounts[2].is_writable /\ accounts[5].is_signer

\* C27: the owner a token Transfer expects is a constant of the operation and
\* not an input: with the same sender, recipient and authority (both writable,
\* the authority a signer), the owner check gives the same verdict, so the
\* instruction is invoked or not alike, whatever account is at position 3.
C27_ExpectedOwnerIsConstant ==
  (/\ Done /\ handler \in TokenTransferHandlers /\ Entered /\ Len(accounts) = 4
   /\ accounts[1].is_writable /\ accounts[2].is_writable /\ accounts[3].is_signer)
  => \A k \in {TOKEN_PROGRAM, SYSTEM_PROGRAM, RENT_ID} :
        LET other == Run(H, Input(data, 0, [accounts EXCEPT ![4].key = k], program_id,
                                  "Ok", seed))
        IN (other.calls # <<>>) <=> (calls # <<>>)

\* The position of the rent sysvar in the accounts of InitializeAccount and
\* InitializeMint.
RentPosition ==
  [n \in {"examples_token_initialize_account", "programs_initialize_account",
          "examples_token_initialize_mint"} |->
     IF n = "examples_token_initialize_mint" THEN 1 ELSE 3]

ExamplesBumpHandlers ==
  {AllHandlers[i].name : i \in {j \in 1..28 : "bump" \in Decoded(AllHandlers[j])}}

\* The offset at which the bump was read: that of the read event of the
\* statement that reads it.
BumpOffset ==
  LET i == CHOOSE j \in Stmts(H.entry, "read") : H.entry[j].name = "bump"
      k == Cardinality({j \in 1..i : H.entry[j].op \in {"read", "read_seed_len"}})
      e == CHOOSE x \in Events("read") : Cardinality({y \in Events("read") : y <= x}) = k
  IN log[e].a

\* C29: in every handler of examples/ that decodes a bump, the signer seeds
\* handed over with the instruction are the handler's fixed label and the bump
\* byte of the payload, nothing else of the input.
C29_SignerSeedsAreLabelAndBump ==
  (Done /\ handler \in ExamplesBumpHandlers /\ calls # <<>>)
  => LET inv == H.body[CHOOSE j \in Stmts(H.body, "invoke") : TRUE]
     IN /\ inv.signers \notin {NoSigners, CallerSigners}
        /\ BumpOffset < Len(data)
        /\ calls[1].signers = <<inv.signers, <<data[BumpOffset + 1]>>>>

\* C30: every seed a with-seed handler hands over with its instruction is
\* ASCII, and a payload whose seed holds a byte of 0x80 or more is rejected by
\* the decoder with InvalidInstructionData.
C30_SeedIsAscii ==
  (Done /\ handler \in WithSeedEntryPoints)
  => /\ \A c \in 1..Len(calls) : \A j \in 1..Len(calls[c].args) :
          calls[c].args[j][1] = "seed"
          => \A i \in 1..Len(calls[c].args[j][2]) : calls[c].args[j][2][i] < 128
     /\ (\E i \in 1..Len(seed) : seed[i] >= 128) => result = InvalidInstructionData

====
